---- MODULE Spec2Model ----
(***************************************************************************)
(* A model of package fs of go-lustre (src/fs/util.go): the Root Walker    *)
(* (MountRoot / MountRelPath and their recursive helpers) over a small     *)
(* directory tree with device identifiers, and the Mount Handle Cache      *)
(* (GetMdt, getOpenMount, mountDir.open) under concurrent callers.         *)
(*                                                                         *)
(* Path names are sequences of one-character strings, so that path.Clean,  *)
(* path.Dir, path.Base and path.Join are computed character by character   *)
(* as the Go library computes them.                                        *)
(***************************************************************************)
EXTENDS Integers, Sequences, FiniteSets, TLC

\* ---------------------------------------------------------------- bounds
MaxLen == 4        \* longest input path name, in characters
NumDev == 2        \* number of distinct device identifiers
NumThreads == 2    \* goroutines calling GetMdt
NumRoots == 2      \* distinct RootDir values passed to GetMdt
MaxCalls == 2      \* GetMdt calls made in one run

\* the deepest directory an absolute path name of MaxLen characters can name
MaxDepth == MaxLen \div 2

\* ------------------------------------------------------- path names (Go)
Names == {"a"}
Alphabet == {"/", "."} \cup Names
\* the name ".lustre" is carried as one symbol: it contains no "/" and is
\* neither "." nor "..", which is all path.Clean looks at
DotLustre == <<"L">>

PathNames == UNION {[1..n -> Alphabet] : n \in 0..MaxLen}

\* the longest chain of findRoot activations followed before the walk is
\* declared to have overflowed the goroutine stack
MaxWalk == MaxLen + 2

\* lazybuf backtracking of path.Clean on ".."
RECURSIVE Backtrack(_, _, _)
Backtrack(out, w, dotdot) ==
    IF w > dotdot /\ out[w + 1] # "/" THEN Backtrack(out, w - 1, dotdot)
    ELSE SubSeq(out, 1, w)

RECURSIVE ElemEnd(_, _)
ElemEnd(p, r) == IF r <= Len(p) /\ p[r] # "/" THEN ElemEnd(p, r + 1) ELSE r

RECURSIVE CleanLoop(_, _, _, _, _)
CleanLoop(p, rooted, r, out, dotdot) ==
    IF r > Len(p) THEN out
    ELSE IF p[r] = "/" THEN CleanLoop(p, rooted, r + 1, out, dotdot)
    ELSE IF p[r] = "." /\ (r = Len(p) \/ p[r + 1] = "/")
         THEN CleanLoop(p, rooted, r + 1, out, dotdot)
    ELSE IF p[r] = "." /\ p[r + 1] = "." /\ (r + 1 = Len(p) \/ p[r + 2] = "/")
         THEN IF Len(out) > dotdot
              THEN CleanLoop(p, rooted, r + 2, Backtrack(out, Len(out) - 1, dotdot), dotdot)
              ELSE IF ~rooted
              THEN LET o2 == (IF Len(out) > 0 THEN out \o <<"/">> ELSE out) \o <<".", ".">>
                   IN  CleanLoop(p, rooted, r + 2, o2, Len(o2))
              ELSE CleanLoop(p, rooted, r + 2, out, dotdot)
    ELSE LET o1 == IF (rooted /\ Len(out) # 1) \/ (~rooted /\ Len(out) # 0)
                   THEN out \o <<"/">> ELSE out
             e  == ElemEnd(p, r)
         IN  CleanLoop(p, rooted, e, o1 \o SubSeq(p, r, e - 1), dotdot)

Clean(p) ==
    IF p = <<>> THEN <<".">>
    ELSE LET rooted == p[1] = "/"
             out == IF rooted THEN CleanLoop(p, TRUE, 2, <<"/">>, 1)
                    ELSE CleanLoop(p, FALSE, 1, <<>>, 0)
         IN  IF out = <<>> THEN <<".">> ELSE out

RECURSIVE LastSlash(_, _)
LastSlash(p, i) == IF i = 0 THEN 0 ELSE IF p[i] = "/" THEN i ELSE LastSlash(p, i - 1)

Dir(p) == Clean(SubSeq(p, 1, LastSlash(p, Len(p))))

RECURSIVE StripSlashes(_)
StripSlashes(p) == IF p # <<>> /\ p[Len(p)] = "/" THEN StripSlashes(SubSeq(p, 1, Len(p) - 1)) ELSE p

Base(p) ==
    IF p = <<>> THEN <<".">>
    ELSE LET s == StripSlashes(p)
             t == SubSeq(s, LastSlash(s, Len(s)) + 1, Len(s))
         IN  IF t = <<>> THEN <<"/">> ELSE t

RECURSIVE JoinBuf(_, _)
JoinBuf(elems, buf) ==
    IF elems = <<>> THEN buf
    ELSE LET e == Head(elems)
         IN  IF buf # <<>> THEN JoinBuf(Tail(elems), buf \o <<"/">> \o e)
             ELSE JoinBuf(Tail(elems), e)

Join(elems) == LET buf == JoinBuf(elems, <<>>) IN IF buf = <<>> THEN <<>> ELSE Clean(buf)

\* ------------------------------------------------------ the file system
\* Directories are named by the sequence of names leading to them from "/".
RECURSIVE SeqsUpTo(_)
SeqsUpTo(n) == IF n = 0 THEN {<<>>}
               ELSE SeqsUpTo(n - 1) \cup
                    {Append(q, c) : q \in {x \in SeqsUpTo(n - 1) : Len(x) = n - 1}, c \in Names}

Nodes == SeqsUpTo(MaxDepth)
RootNode == <<>>
ParentNode(n) == IF n = <<>> THEN n ELSE SubSeq(n, 1, Len(n) - 1)
Devices == 0..(NumDev - 1)

\* what a directory without the genuine sentinel shows under ".lustre" when
\* the walk looks there: nothing, an entry whose stat fails, a regular file,
\* a directory whose identifier lookup fails, or a directory whose identifier
\* is not the special one.  A walk looks at one place at most, so this is an
\* input of the activation that looks.  A failing stat or identifier lookup
\* can hit the genuine sentinel as well.
OtherKinds == {"absent", "unstatable", "file", "nofid", "plain"}

VARIABLES
    dev,        \* st_dev of every directory
    special,    \* the directories holding the genuine ".lustre" directory
    cwd,        \* the working directory of the process
    pc,         \* "idle", "walk", "done" or "overflow"
    op,         \* the exported function called
    input,      \* its argument
    pathname,   \* argument of the current findRoot / findRelPath activation
    startDev,   \* the dev argument
    relPath,    \* the relPath argument (findRelPath)
    visited,    \* history: the pathnames of the activations so far
    why,        \* history: what ended the walk
    seen,       \* history: what the sentinel check saw under ".lustre"
    tested,     \* history: the pathnames whose ".lustre" isDotLustre was called on
    result      \* the values returned to the caller

fsvars == <<dev, special, cwd>>
walkvars == <<pc, op, input, pathname, startDev, relPath, visited, why, seen, tested,
              result>>

\* -------------------------------------------------- the mount handle cache
Threads == 1..NumThreads
Roots == 1..NumRoots
Handles == 1..MaxCalls      \* a call allocates one mountDir at most
NoHandle == 0
NilFile == 0                \* the nil *os.File
Fids == {"fidA", "fidB"}    \* the file identifiers callers ask about

VARIABLES
    openMount,  \* the registry: root -> handle, NoHandle where there is no key
    mount,      \* the allocated mountDir objects: path, opened, f, lock holder
    nmount,     \* mountDir objects allocated
    nfile,      \* *os.File objects returned by os.Open
    fileDir,    \* the directory every *os.File was opened on
    th,         \* every goroutine's position and locals in GetMdt
    calls,      \* GetMdt calls made
    opens,      \* history: per handle, os.Open calls made and succeeded
    hist,       \* history: per root, GetMdt calls made and failed in open
    queried,    \* history: the index queries made, with what they returned
    overlapped, \* history: two GetMdt calls have been in progress together
    fatal       \* the runtime has aborted the process

cachevars == <<openMount, mount, nmount, nfile, fileDir, th, calls, opens, hist,
               queried, overlapped, fatal>>

\* a mount point: the device changes there, or it is "/"
Boundary(n) == n = RootNode \/ dev[n] # dev[ParentNode(n)]

\* the ".lustre" entry of directory n, kind being what a directory without
\* the genuine one shows
dotl(n, kind) ==
    IF n \in special /\ kind \notin {"unstatable", "nofid"} THEN "special" ELSE kind

\* the components of a path name, split at "/"
RECURSIVE Components(_, _, _)
Components(p, i, cur) ==
    IF i > Len(p) THEN <<cur>>
    ELSE IF p[i] = "/" THEN <<cur>> \o Components(p, i + 1, <<>>)
    ELSE Components(p, i + 1, Append(cur, p[i]))

\* path resolution of the components cs from the directory at.node
RECURSIVE Walk(_, _)
Walk(at, cs) ==
    IF cs = <<>> \/ ~at.ok THEN at
    ELSE LET c == Head(cs) IN
         IF c = <<>> \/ c = <<".">> THEN Walk(at, Tail(cs))
         ELSE IF c = <<".", ".">>
              THEN Walk([at EXCEPT !.node = ParentNode(at.node)], Tail(cs))
         ELSE IF Len(c) = 1 /\ c[1] \in Names /\ Len(at.node) < MaxDepth
              THEN Walk([at EXCEPT !.node = Append(at.node, c[1])], Tail(cs))
         ELSE [at EXCEPT !.ok = FALSE]

\* os.Lstat of a path name of directories: ok = FALSE is a non-nil error
Lstat(p) ==
    IF p = <<>> THEN [ok |-> FALSE, node |-> RootNode]
    ELSE Walk([ok |-> TRUE, node |-> IF p[1] = "/" THEN RootNode ELSE cwd],
              Components(p, 1, <<>>))

\* st_dev of a stat result
rootDevice(fi) == dev[fi.node]

\* isDotLustre without the fid.IsDotLustre() test: any directory named
\* ".lustre" whose identifier can be looked up passes
isDotLustreAnyFid(dir, kind) ==
    IF Base(dir) # DotLustre THEN FALSE
    ELSE LET holder == Lstat(Dir(dir)) IN
         IF ~holder.ok THEN FALSE
         ELSE dotl(holder.node, kind) \in {"plain", "special"}

\* isDotLustre taking a failed identifier lookup for a pass:
\* err != nil || fid.IsDotLustre()
isDotLustreLookupErrAccepted(dir, kind) ==
    IF Base(dir) # DotLustre THEN FALSE
    ELSE LET holder == Lstat(Dir(dir)) IN
         IF ~holder.ok THEN FALSE
         ELSE dotl(holder.node, kind) \in {"nofid", "special"}

\* os.Lstat(dir) succeeding, fi.IsDir(), LookupFid(dir) succeeding, and
\* fid.IsDotLustre(); only the ".lustre" entry of a directory can pass
isDotLustre(dir, kind) ==
    IF Base(dir) # DotLustre THEN FALSE
    ELSE LET holder == Lstat(Dir(dir)) IN
         IF ~holder.ok THEN FALSE
         ELSE LET k == dotl(holder.node, kind) IN
              IF k \in {"absent", "unstatable"} THEN FALSE    \* err != nil
              ELSE IF k = "file" THEN FALSE                    \* not fi.IsDir()
              ELSE IF k = "nofid" THEN FALSE                   \* LookupFid fails
              ELSE k = "special"                               \* fid.IsDotLustre()

\* what isDotLustre(dir) looks at
SentinelSeen(dir, kind) ==
    LET holder == Lstat(Dir(dir)) IN
    IF Base(dir) # DotLustre \/ ~holder.ok THEN "absent" ELSE dotl(holder.node, kind)

\* findRoot returning the directory it tested instead of pathname
findRootStepReturnsSentinel(d, pn, statFails, kind) ==
    LET parent == Dir(pn)
        fi == Lstat(parent)
    IN  IF ~fi.ok \/ statFails
        THEN [kind |-> "return", root |-> <<>>, why |-> "stat"]
        ELSE IF rootDevice(fi) # d \/ pn = <<"/">>
             THEN IF isDotLustre(Join(<<pn, DotLustre>>), kind)
                  THEN [kind |-> "return", root |-> Join(<<pn, DotLustre>>), why |-> "sentinel"]
                  ELSE [kind |-> "return", root |-> <<>>, why |-> "nosentinel"]
        ELSE [kind |-> "recurse", pathname |-> parent]

\* one activation of findRoot, up to its return or its recursive call
findRootStep(d, pn, statFails, kind) ==
    LET parent == Dir(pn)
        fi == Lstat(parent)
    IN  IF ~fi.ok \/ statFails
        THEN [kind |-> "return", root |-> <<>>, why |-> "stat"]
        ELSE IF rootDevice(fi) # d \/ pn = <<"/">>
             THEN IF isDotLustre(Join(<<pn, DotLustre>>), kind)
                  THEN [kind |-> "return", root |-> pn, why |-> "sentinel"]
                  ELSE [kind |-> "return", root |-> <<>>, why |-> "nosentinel"]
        ELSE [kind |-> "recurse", pathname |-> parent]

\* findRelPath without the test pathname == "/"
findRelPathStepNoRootTest(d, pn, rel, statFails, kind) ==
    LET parent == Dir(pn)
        fi == Lstat(parent)
    IN  IF ~fi.ok \/ statFails
        THEN [kind |-> "return", root |-> <<>>, rel |-> <<>>, why |-> "stat"]
        ELSE IF rootDevice(fi) # d
             THEN IF isDotLustre(Join(<<pn, DotLustre>>), kind)
                  THEN [kind |-> "return", root |-> pn, rel |-> Join(rel), why |-> "sentinel"]
                  ELSE [kind |-> "return", root |-> <<>>, rel |-> <<>>, why |-> "nosentinel"]
        ELSE [kind |-> "recurse", pathname |-> parent, rel |-> <<Base(pn)>> \o rel]

\* one activation of findRelPath
findRelPathStep(d, pn, rel, statFails, kind) ==
    LET parent == Dir(pn)
        fi == Lstat(parent)
    IN  IF ~fi.ok \/ statFails
        THEN [kind |-> "return", root |-> <<>>, rel |-> <<>>, why |-> "stat"]
        ELSE IF rootDevice(fi) # d \/ pn = <<"/">>
             THEN IF isDotLustre(Join(<<pn, DotLustre>>), kind)
                  THEN [kind |-> "return", root |-> pn, rel |-> Join(rel), why |-> "sentinel"]
                  ELSE [kind |-> "return", root |-> <<>>, rel |-> <<>>, why |-> "nosentinel"]
        ELSE [kind |-> "recurse", pathname |-> parent, rel |-> <<Base(pn)>> \o rel]

NoResult == [root |-> <<>>, rel |-> <<>>, err |-> "unset"]

WalkInit ==
    /\ pc = "idle" /\ op = "none" /\ input = <<>> /\ pathname = <<>>
    /\ startDev = 0 /\ relPath = <<>> /\ visited = <<>> /\ why = "none"
    /\ seen = "none" /\ tested = <<>>
    /\ result = NoResult

FsInit ==
    /\ dev \in [Nodes -> Devices]
    /\ dev[RootNode] = 0      \* identifiers are only compared for equality
    /\ special \in SUBSET {n \in Nodes : Boundary(n)}
    /\ cwd \in Nodes

\* MountRoot(path): the stat of the entry, then the first findRoot activation
CallMountRoot(p, fails) ==
    /\ pc = "idle"
    /\ op' = "MountRoot" /\ input' = p
    /\ LET fi == Lstat(p) IN
       IF ~fi.ok \/ fails
       THEN /\ pc' = "done"
            /\ result' = [root |-> <<>>, rel |-> <<>>, err |-> "lstat"]
            /\ why' = "entry"
            /\ UNCHANGED <<pathname, startDev, visited>>
       ELSE /\ pc' = "walk"
            /\ pathname' = p
            /\ startDev' = rootDevice(fi)
            /\ visited' = <<p>>
            /\ UNCHANGED <<result, why>>
    /\ UNCHANGED <<relPath, seen, tested, fsvars, cachevars>>

\* GetID entering the root it is asked about in the handle registry
CallGetIDRegisters(p, fails) ==
    /\ pc = "idle"
    /\ op' = "GetID" /\ input' = p
    /\ LET fi == Lstat(p) IN
       IF ~fi.ok \/ fails
       THEN /\ pc' = "done"
            /\ result' = [root |-> <<>>, rel |-> <<>>, err |-> "lstat"]
            /\ why' = "entry"
            /\ UNCHANGED <<pathname, startDev, visited>>
       ELSE /\ pc' = "walk"
            /\ pathname' = p
            /\ startDev' = rootDevice(fi)
            /\ visited' = <<p>>
            /\ UNCHANGED <<result, why>>
    /\ IF nmount < MaxCalls
       THEN /\ nmount' = nmount + 1
            /\ mount' = [mount EXCEPT ![nmount + 1].path = 1]
            /\ openMount' = [openMount EXCEPT ![1] = nmount + 1]
       ELSE UNCHANGED <<nmount, mount, openMount>>
    /\ UNCHANGED <<relPath, seen, tested, fsvars>>
    /\ UNCHANGED <<nfile, fileDir, th, calls, opens, hist, queried, overlapped, fatal>>

\* GetID(p): r, err := MountRoot(p), returned as ID(r), err
CallGetID(p, fails) ==
    /\ pc = "idle"
    /\ op' = "GetID" /\ input' = p
    /\ LET fi == Lstat(p) IN
       IF ~fi.ok \/ fails
       THEN /\ pc' = "done"
            /\ result' = [root |-> <<>>, rel |-> <<>>, err |-> "lstat"]
            /\ why' = "entry"
            /\ UNCHANGED <<pathname, startDev, visited>>
       ELSE /\ pc' = "walk"
            /\ pathname' = p
            /\ startDev' = rootDevice(fi)
            /\ visited' = <<p>>
            /\ UNCHANGED <<result, why>>
    /\ UNCHANGED <<relPath, seen, tested, fsvars, cachevars>>

\* MountRelPath(pathname): filepath.Clean, the stat, the first activation
CallMountRelPath(p, fails) ==
    /\ pc = "idle"
    /\ op' = "MountRelPath" /\ input' = p
    /\ LET cp == Clean(p)
           fi == Lstat(cp)
       IN  IF ~fi.ok \/ fails
           THEN /\ pc' = "done"
                /\ result' = [root |-> <<>>, rel |-> <<>>, err |-> "lstat"]
                /\ why' = "entry"
                /\ UNCHANGED <<pathname, startDev, visited>>
           ELSE /\ pc' = "walk"
                /\ pathname' = cp
                /\ startDev' = rootDevice(fi)
                /\ visited' = <<cp>>
                /\ UNCHANGED <<result, why>>
    /\ UNCHANGED <<relPath, seen, tested, fsvars, cachevars>>

\* an activation of findRoot; on return MountRoot maps "" to its error.
\* An activation beyond MaxWalk stands for the overflow of the goroutine
\* stack, which is where an unbounded recursion ends.
StepFindRoot(statFails, kind) ==
    /\ pc = "walk" /\ op \in {"MountRoot", "GetID"}
    /\ LET s == findRootStep(startDev, pathname, statFails, kind) IN
       IF s.kind = "return"
       THEN /\ pc' = "done"
            /\ why' = s.why
            /\ seen' = IF s.why = "stat" THEN seen
                       ELSE SentinelSeen(Join(<<pathname, DotLustre>>), kind)
            /\ tested' = IF s.why = "stat" THEN tested ELSE Append(tested, pathname)
            /\ result' = IF s.root = <<>>
                         THEN [root |-> <<>>, rel |-> <<>>, err |-> "notLustre"]
                         ELSE [root |-> s.root, rel |-> <<>>, err |-> "nil"]
            /\ UNCHANGED <<pathname, visited>>
       ELSE IF Len(visited) < MaxWalk
       THEN /\ pathname' = s.pathname
            /\ visited' = Append(visited, s.pathname)
            /\ UNCHANGED <<pc, why, seen, tested, result>>
       ELSE /\ pc' = "overflow"
            /\ UNCHANGED <<pathname, visited, why, seen, tested, result>>
    /\ UNCHANGED <<op, input, startDev, relPath, fsvars, cachevars>>

\* an activation of findRelPath; on return MountRelPath maps "" to its error
StepFindRelPath(statFails, kind) ==
    /\ pc = "walk" /\ op = "MountRelPath"
    /\ LET s == findRelPathStep(startDev, pathname, relPath, statFails, kind) IN
       IF s.kind = "return"
       THEN /\ pc' = "done"
            /\ why' = s.why
            /\ seen' = IF s.why = "stat" THEN seen
                       ELSE SentinelSeen(Join(<<pathname, DotLustre>>), kind)
            /\ tested' = IF s.why = "stat" THEN tested ELSE Append(tested, pathname)
            /\ result' = IF s.root = <<>>
                         THEN [root |-> <<>>, rel |-> <<>>, err |-> "notLustre"]
                         ELSE [root |-> s.root, rel |-> s.rel, err |-> "nil"]
            /\ UNCHANGED <<pathname, visited, relPath>>
       ELSE IF Len(visited) < MaxWalk
       THEN /\ pathname' = s.pathname
            /\ relPath' = s.rel
            /\ visited' = Append(visited, s.pathname)
            /\ UNCHANGED <<pc, why, seen, tested, result>>
       ELSE /\ pc' = "overflow"
            /\ UNCHANGED <<pathname, visited, relPath, why, seen, tested, result>>
    /\ UNCHANGED <<op, input, startDev, fsvars, cachevars>>

\* ------------------------------------------ the actions of the cache
NoIndex == <<>>
Idle == [pc |-> "idle", root |-> 0, mnt |-> NoHandle, f |-> NilFile,
         stored |-> {}, ret |-> "none", idx |-> NoIndex,
         nopen |-> 0, operr |-> FALSE, nquery |-> 0]

CacheInit ==
    /\ openMount = [r \in Roots |-> NoHandle]
    /\ mount = [h \in Handles |-> [path |-> 0, opened |-> FALSE, f |-> NilFile, lock |-> 0]]
    /\ nmount = 0
    /\ nfile = 0
    /\ fileDir = [f \in Handles |-> 0]
    /\ th = [t \in Threads |-> Idle]
    /\ calls = 0
    /\ opens = [h \in Handles |-> [calls |-> 0, ok |-> 0]]
    /\ hist = [r \in Roots |-> [calls |-> 0, openerr |-> 0]]
    /\ queried = {}
    /\ overlapped = FALSE
    /\ fatal = FALSE

Running(t) == th[t].pc \notin {"idle", "returned"}

\* another goroutine is inside or about to enter a map operation
MapRace(t, pcs) == \E u \in Threads \ {t} : th[u].pc \in pcs

\* GetMdt(root, f) is called by goroutine t
CallGetMdt(t, r) ==
    /\ ~fatal
    /\ th[t].pc \in {"idle", "returned"}
    /\ calls < MaxCalls
    /\ calls' = calls + 1
    /\ th' = [th EXCEPT ![t] = [Idle EXCEPT !.pc = "lookup", !.root = r]]
    /\ overlapped' = (overlapped \/ \E u \in Threads \ {t} : Running(u))
    /\ hist' = [hist EXCEPT ![r].calls = @ + 1]
    /\ UNCHANGED <<openMount, mount, nmount, nfile, fileDir, opens, queried, fatal>>
    /\ UNCHANGED <<fsvars, walkvars>>

\* getOpenMount taking every root for a new one: the handle found is dropped
\* and a fresh one is constructed
MapLookupAlwaysMisses(t, detected) ==
    /\ ~fatal
    /\ th[t].pc = "lookup"
    /\ th' = [th EXCEPT ![t].mnt = NoHandle, ![t].pc = "insert"]
    /\ UNCHANGED <<openMount, mount, nmount, nfile, fileDir, calls, opens, hist, queried,
                   overlapped, fatal>>
    /\ UNCHANGED <<fsvars, walkvars>>

\* getOpenMount: mnt, ok := openMount[root].  The map is not guarded: a read
\* concurrent with another goroutine's write is a data race, which the
\* runtime may detect and abort on.
MapLookup(t, detected) ==
    /\ ~fatal
    /\ th[t].pc = "lookup"
    /\ IF detected /\ MapRace(t, {"insert"})
       THEN /\ fatal' = TRUE
            /\ UNCHANGED th
       ELSE /\ th' = [th EXCEPT ![t].mnt = openMount[th[t].root],
                                ![t].pc = IF openMount[th[t].root] = NoHandle
                                          THEN "insert" ELSE "opened?"]
            /\ UNCHANGED fatal
    /\ UNCHANGED <<openMount, mount, nmount, nfile, fileDir, calls, opens, hist, queried, overlapped>>
    /\ UNCHANGED <<fsvars, walkvars>>

\* getOpenMount without the assignment openMount[root] = mnt
MapInsertForgotten(t, detected) ==
    /\ ~fatal
    /\ th[t].pc = "insert"
    /\ nmount' = nmount + 1
    /\ mount' = [mount EXCEPT ![nmount + 1].path = th[t].root]
    /\ th' = [th EXCEPT ![t].mnt = nmount + 1, ![t].pc = "opened?"]
    /\ UNCHANGED <<openMount, nfile, fileDir, calls, opens, hist, queried, overlapped, fatal>>
    /\ UNCHANGED <<fsvars, walkvars>>

\* getOpenMount constructing the handle on another path than root
MapInsertPathByHandle(t, detected) ==
    /\ ~fatal
    /\ th[t].pc = "insert"
    /\ nmount' = nmount + 1
    /\ mount' = [mount EXCEPT ![nmount + 1].path = nmount + 1]
    /\ openMount' = [openMount EXCEPT ![th[t].root] = nmount + 1]
    /\ th' = [th EXCEPT ![t].mnt = nmount + 1, ![t].pc = "opened?"]
    /\ UNCHANGED <<nfile, fileDir, calls, opens, hist, queried, overlapped, fatal>>
    /\ UNCHANGED <<fsvars, walkvars>>

\* getOpenMount: mnt = &mountDir{path: root}; openMount[root] = mnt
MapInsert(t, detected) ==
    /\ ~fatal
    /\ th[t].pc = "insert"
    /\ IF detected /\ MapRace(t, {"lookup", "insert"})
       THEN /\ fatal' = TRUE
            /\ UNCHANGED <<th, openMount, mount, nmount>>
       ELSE /\ nmount' = nmount + 1
            /\ mount' = [mount EXCEPT ![nmount + 1].path = th[t].root]
            /\ openMount' = [openMount EXCEPT ![th[t].root] = nmount + 1]
            /\ th' = [th EXCEPT ![t].mnt = nmount + 1, ![t].pc = "opened?"]
            /\ UNCHANGED fatal
    /\ UNCHANGED <<nfile, fileDir, calls, opens, hist, queried, overlapped>>
    /\ UNCHANGED <<fsvars, walkvars>>

\* mountDir.GetMdt: if !m.opened, read without the lock
ReadOpened(t) ==
    /\ ~fatal
    /\ th[t].pc = "opened?"
    /\ th' = [th EXCEPT ![t].pc = IF mount[th[t].mnt].opened THEN "query" ELSE "lock"]
    /\ UNCHANGED <<openMount, mount, nmount, nfile, fileDir, calls, opens, hist, queried, overlapped, fatal>>
    /\ UNCHANGED <<fsvars, walkvars>>

\* mountDir.open: m.lock.Lock()
Lock(t) ==
    /\ ~fatal
    /\ th[t].pc = "lock"
    /\ mount[th[t].mnt].lock = 0
    /\ mount' = [mount EXCEPT ![th[t].mnt].lock = t]
    /\ th' = [th EXCEPT ![t].pc = "open"]
    /\ UNCHANGED <<openMount, nmount, nfile, fileDir, calls, opens, hist, queried, overlapped, fatal>>
    /\ UNCHANGED <<fsvars, walkvars>>

\* mountDir.open without the test of m.opened under the lock
OpenUnchecked(t, ok) ==
    /\ ~fatal
    /\ th[t].pc = "open"
    /\ LET h == th[t].mnt IN
       IF ok
       THEN /\ nfile' = nfile + 1
            /\ fileDir' = [fileDir EXCEPT ![nfile + 1] = mount[h].path]
            /\ opens' = [opens EXCEPT ![h].calls = @ + 1, ![h].ok = @ + 1]
            /\ th' = [th EXCEPT ![t].pc = "store", ![t].f = nfile + 1,
                                ![t].nopen = @ + 1]
            /\ UNCHANGED <<mount, hist>>
       ELSE /\ opens' = [opens EXCEPT ![h].calls = @ + 1]
            /\ mount' = [mount EXCEPT ![h].lock = 0]
            /\ th' = [th EXCEPT ![t].pc = "returned", ![t].ret = "openerr",
                                ![t].nopen = @ + 1, ![t].operr = TRUE]
            /\ hist' = [hist EXCEPT ![th[t].root].openerr = @ + 1]
            /\ UNCHANGED <<nfile, fileDir>>
    /\ UNCHANGED <<openMount, nmount, calls, queried, overlapped, fatal>>
    /\ UNCHANGED <<fsvars, walkvars>>

\* mountDir.open returning the error of os.Open without the deferred Unlock
OpenFailKeepsLock(t, ok) ==
    /\ ~fatal
    /\ th[t].pc = "open"
    /\ LET h == th[t].mnt IN
       IF mount[h].opened
       THEN /\ th' = [th EXCEPT ![t].pc = "unlock"]
            /\ UNCHANGED <<mount, nfile, fileDir, opens, hist>>
       ELSE IF ok
       THEN /\ nfile' = nfile + 1
            /\ fileDir' = [fileDir EXCEPT ![nfile + 1] = mount[h].path]
            /\ opens' = [opens EXCEPT ![h].calls = @ + 1, ![h].ok = @ + 1]
            /\ th' = [th EXCEPT ![t].pc = "store", ![t].f = nfile + 1,
                                ![t].nopen = @ + 1]
            /\ UNCHANGED <<mount, hist>>
       ELSE /\ opens' = [opens EXCEPT ![h].calls = @ + 1]
            /\ th' = [th EXCEPT ![t].pc = "returned", ![t].ret = "openerr",
                                ![t].nopen = @ + 1, ![t].operr = TRUE]
            /\ hist' = [hist EXCEPT ![th[t].root].openerr = @ + 1]
            /\ UNCHANGED <<mount, nfile, fileDir>>
    /\ UNCHANGED <<openMount, nmount, calls, queried, overlapped, fatal>>
    /\ UNCHANGED <<fsvars, walkvars>>

\* mountDir.GetMdt going on to the query when m.open() has failed
OpenErrorIgnored(t, ok) ==
    /\ ~fatal
    /\ th[t].pc = "open"
    /\ LET h == th[t].mnt IN
       IF mount[h].opened
       THEN /\ th' = [th EXCEPT ![t].pc = "unlock"]
            /\ UNCHANGED <<mount, nfile, fileDir, opens, hist>>
       ELSE IF ok
       THEN /\ nfile' = nfile + 1
            /\ fileDir' = [fileDir EXCEPT ![nfile + 1] = mount[h].path]
            /\ opens' = [opens EXCEPT ![h].calls = @ + 1, ![h].ok = @ + 1]
            /\ th' = [th EXCEPT ![t].pc = "store", ![t].f = nfile + 1,
                                ![t].nopen = @ + 1]
            /\ UNCHANGED <<mount, hist>>
       ELSE /\ opens' = [opens EXCEPT ![h].calls = @ + 1]
            /\ th' = [th EXCEPT ![t].pc = "unlock",
                                ![t].nopen = @ + 1, ![t].operr = TRUE]
            /\ hist' = [hist EXCEPT ![th[t].root].openerr = @ + 1]
            /\ UNCHANGED <<mount, nfile, fileDir>>
    /\ UNCHANGED <<openMount, nmount, calls, queried, overlapped, fatal>>
    /\ UNCHANGED <<fsvars, walkvars>>

\* mountDir.open under the lock: if !m.opened { f, err := os.Open(...) ... };
\* on an error the deferred Unlock runs and GetMdt returns the error
Open(t, ok) ==
    /\ ~fatal
    /\ th[t].pc = "open"
    /\ LET h == th[t].mnt IN
       IF mount[h].opened
       THEN /\ th' = [th EXCEPT ![t].pc = "unlock"]
            /\ UNCHANGED <<mount, nfile, fileDir, opens, hist>>
       ELSE IF ok
       THEN /\ nfile' = nfile + 1
            /\ fileDir' = [fileDir EXCEPT ![nfile + 1] = mount[h].path]
            /\ opens' = [opens EXCEPT ![h].calls = @ + 1, ![h].ok = @ + 1]
            /\ th' = [th EXCEPT ![t].pc = "store", ![t].f = nfile + 1,
                                ![t].nopen = @ + 1]
            /\ UNCHANGED <<mount, hist>>
       ELSE /\ opens' = [opens EXCEPT ![h].calls = @ + 1]
            /\ mount' = [mount EXCEPT ![h].lock = 0]
            /\ th' = [th EXCEPT ![t].pc = "returned", ![t].ret = "openerr",
                                ![t].nopen = @ + 1, ![t].operr = TRUE]
            /\ hist' = [hist EXCEPT ![th[t].root].openerr = @ + 1]
            /\ UNCHANGED <<nfile, fileDir>>
    /\ UNCHANGED <<openMount, nmount, calls, queried, overlapped, fatal>>
    /\ UNCHANGED <<fsvars, walkvars>>

\* mountDir.open without the assignment m.opened = true
StoreFileOnly(t, field) ==
    /\ ~fatal
    /\ th[t].pc = "store"
    /\ field \notin th[t].stored
    /\ mount' = IF field = "f" THEN [mount EXCEPT ![th[t].mnt].f = th[t].f] ELSE mount
    /\ th' = [th EXCEPT ![t].stored = @ \cup {field},
                        ![t].pc = IF th[t].stored \cup {field} = {"f", "opened"}
                                  THEN "unlock" ELSE "store"]
    /\ UNCHANGED <<openMount, nmount, nfile, fileDir, calls, opens, hist, queried, overlapped, fatal>>
    /\ UNCHANGED <<fsvars, walkvars>>

\* mountDir.open: m.f = f and m.opened = true.  A goroutine that reads
\* without the lock may see the two stores in either order.
Store(t, field) ==
    /\ ~fatal
    /\ th[t].pc = "store"
    /\ field \notin th[t].stored
    /\ mount' = IF field = "f" THEN [mount EXCEPT ![th[t].mnt].f = th[t].f]
                ELSE [mount EXCEPT ![th[t].mnt].opened = TRUE]
    /\ th' = [th EXCEPT ![t].stored = @ \cup {field},
                        ![t].pc = IF th[t].stored \cup {field} = {"f", "opened"}
                                  THEN "unlock" ELSE "store"]
    /\ UNCHANGED <<openMount, nmount, nfile, fileDir, calls, opens, hist, queried, overlapped, fatal>>
    /\ UNCHANGED <<fsvars, walkvars>>

\* mountDir.open: the deferred m.lock.Unlock(), return nil
Unlock(t) ==
    /\ ~fatal
    /\ th[t].pc = "unlock"
    /\ mount' = [mount EXCEPT ![th[t].mnt].lock = 0]
    /\ th' = [th EXCEPT ![t].pc = "query"]
    /\ UNCHANGED <<openMount, nmount, nfile, fileDir, calls, opens, hist, queried, overlapped, fatal>>
    /\ UNCHANGED <<fsvars, walkvars>>

\* llapi.GetMdtIndexByFid(fd, fid) on a mount that does not change: the index
\* of the node that owns fid on the file system the descriptor is open on
GetMdtIndexByFid(dir, fid) == <<dir, fid>>

\* mountDir.GetMdt: llapi.GetMdtIndexByFid(int(m.f.Fd()), in), returned as it
\* is; Fd() of a nil *os.File is an invalid descriptor, on which the query
\* fails.  The caller's fid is only ever used here.
Query(t, ok, fid) ==
    /\ ~fatal
    /\ th[t].pc = "query"
    /\ LET h == th[t].mnt
           f == mount[h].f
           res == IF ok /\ f # NilFile
                  THEN [err |-> FALSE, idx |-> GetMdtIndexByFid(fileDir[f], fid)]
                  ELSE [err |-> TRUE, idx |-> NoIndex]
       IN  /\ queried' = queried \cup
                  {[mnt |-> h, f |-> f, root |-> th[t].root, fid |-> fid, res |-> res]}
           /\ th' = [th EXCEPT ![t].pc = "returned", ![t].f = f,
                               ![t].nquery = @ + 1,
                               ![t].ret = IF res.err THEN "queryerr" ELSE "index",
                               ![t].idx = res.idx]
    /\ UNCHANGED <<openMount, mount, nmount, nfile, fileDir, calls, opens, hist, overlapped, fatal>>
    /\ UNCHANGED <<fsvars, walkvars>>

vars == <<dev, special, cwd, pc, op, input, pathname, startDev, relPath,
          visited, why, seen, tested, result,
          openMount, mount, nmount, nfile, fileDir, th, calls, opens, hist, queried,
          overlapped, fatal>>

\* the root walker called on every directory tree
Init == FsInit /\ WalkInit /\ CacheInit

Next ==
    \/ \E p \in PathNames, fails \in BOOLEAN : CallMountRoot(p, fails)
    \/ \E p \in PathNames, fails \in BOOLEAN : CallMountRelPath(p, fails)
    \/ \E p \in PathNames, fails \in BOOLEAN : CallGetID(p, fails)
    \/ \E statFails \in BOOLEAN, kind \in OtherKinds : StepFindRoot(statFails, kind)
    \/ \E statFails \in BOOLEAN, kind \in OtherKinds : StepFindRelPath(statFails, kind)

Spec == Init /\ [][Next]_vars

\* the mount handle cache under concurrent GetMdt callers
InitCache ==
    /\ dev = [n \in Nodes |-> 0] /\ special = {RootNode} /\ cwd = RootNode
    /\ WalkInit
    /\ CacheInit

NextCache ==
    \/ \E t \in Threads, r \in Roots : CallGetMdt(t, r)
    \/ \E t \in Threads, detected \in BOOLEAN : MapLookup(t, detected)
    \/ \E t \in Threads, detected \in BOOLEAN : MapInsert(t, detected)
    \/ \E t \in Threads : ReadOpened(t)
    \/ \E t \in Threads : Lock(t)
    \/ \E t \in Threads, ok \in BOOLEAN : Open(t, ok)
    \/ \E t \in Threads, field \in {"f", "opened"} : Store(t, field)
    \/ \E t \in Threads : Unlock(t)
    \/ \E t \in Threads, ok \in BOOLEAN, fid \in Fids : Query(t, ok, fid)

SpecCache == InitCache /\ [][NextCache]_vars

\* the root walker called while a goroutine is calling GetMdt: the inputs are
\* an absolute path, a relative one, one below a directory and one that names
\* nothing
SharedPaths == {<<"/">>, <<"a">>, <<"/", "a">>, <<>>}
OneCaller == {1}

InitShared == InitCache

NextShared ==
    \/ \E p \in SharedPaths, fails \in BOOLEAN : CallMountRoot(p, fails)
    \/ \E p \in SharedPaths, fails \in BOOLEAN : CallMountRelPath(p, fails)
    \/ \E p \in SharedPaths, fails \in BOOLEAN : CallGetID(p, fails)
    \/ \E statFails \in BOOLEAN, kind \in OtherKinds : StepFindRoot(statFails, kind)
    \/ \E statFails \in BOOLEAN, kind \in OtherKinds : StepFindRelPath(statFails, kind)
    \/ \E t \in OneCaller, r \in Roots : CallGetMdt(t, r)
    \/ \E t \in OneCaller, detected \in BOOLEAN : MapLookup(t, detected)
    \/ \E t \in OneCaller, detected \in BOOLEAN : MapInsert(t, detected)
    \/ \E t \in OneCaller : ReadOpened(t)
    \/ \E t \in OneCaller : Lock(t)
    \/ \E t \in OneCaller, ok \in BOOLEAN : Open(t, ok)
    \/ \E t \in OneCaller, field \in {"f", "opened"} : Store(t, field)
    \/ \E t \in OneCaller : Unlock(t)
    \/ \E t \in OneCaller, ok \in BOOLEAN, fid \in Fids : Query(t, ok, fid)

SpecShared == InitShared /\ [][NextShared]_vars

\* ------------------------------------- the walk as one function, no faults
Overflow == <<"!">>

RECURSIVE findRoot(_, _, _)
findRoot(d, pn, fuel) ==
    LET s == findRootStep(d, pn, FALSE, "absent") IN
    IF s.kind = "return" THEN s.root
    ELSE IF fuel = 0 THEN Overflow
    ELSE findRoot(d, s.pathname, fuel - 1)

MountRoot(p) ==
    LET fi == Lstat(p) IN
    IF ~fi.ok THEN [root |-> <<>>, rel |-> <<>>, err |-> "lstat"]
    ELSE LET mnt == findRoot(rootDevice(fi), p, MaxWalk) IN
         IF mnt = <<>> THEN [root |-> <<>>, rel |-> <<>>, err |-> "notLustre"]
         ELSE IF mnt = Overflow THEN [root |-> <<>>, rel |-> <<>>, err |-> "overflow"]
         ELSE [root |-> mnt, rel |-> <<>>, err |-> "nil"]

RECURSIVE findRelPath(_, _, _, _)
findRelPath(d, pn, rel, fuel) ==
    LET s == findRelPathStep(d, pn, rel, FALSE, "absent") IN
    IF s.kind = "return" THEN [root |-> s.root, rel |-> s.rel]
    ELSE IF fuel = 0 THEN [root |-> Overflow, rel |-> <<>>]
    ELSE findRelPath(d, s.pathname, s.rel, fuel - 1)

MountRelPath(p) ==
    LET cp == Clean(p)
        fi == Lstat(cp)
    IN  IF ~fi.ok THEN [root |-> <<>>, rel |-> <<>>, err |-> "lstat"]
        ELSE LET r == findRelPath(rootDevice(fi), cp, <<>>, MaxWalk) IN
             IF r.root = <<>> THEN [root |-> <<>>, rel |-> <<>>, err |-> "notLustre"]
             ELSE IF r.root = Overflow THEN [root |-> <<>>, rel |-> <<>>, err |-> "overflow"]
             ELSE [root |-> r.root, rel |-> r.rel, err |-> "nil"]

\* RootDir.Join with one argument
RootDirJoin(root, arg) == Join(<<root, Join(<<arg>>)>>)

\* ------------------------------------------------- vocabulary of the claims
NodeOf(p) == Lstat(p).node
Returned == pc = "done" /\ result.err = "nil"
NotFound == pc = "done" /\ result.err = "notLustre"

\* directory a is b or an ancestor of b
AncestorOrSelf(a, b) == Len(a) <= Len(b) /\ SubSeq(b, 1, Len(a)) = a

\* the mount point of the file system holding directory n
RECURSIVE MountPoint(_)
MountPoint(n) == IF Boundary(n) THEN n ELSE MountPoint(ParentNode(n))

\* n lies on a mounted target file system
OnTarget(n) == MountPoint(n) \in special

Absolute(p) == p # <<>> /\ p[1] = "/"

\* the walk ran to its boundary test and no system call of it failed
NoFault ==
    /\ pc = "done"
    /\ why \in {"sentinel", "nosentinel"}
    /\ seen \notin {"unstatable", "nofid"}

\* the entry lies below the mount point of a target file system, and so does
\* what path.Dir names
StrictlyInside(p) ==
    LET n == NodeOf(p)
        pp == Lstat(Dir(p))
    IN  /\ OnTarget(n)
        /\ n # MountPoint(n)
        /\ pp.ok
        /\ MountPoint(pp.node) = MountPoint(n)

\* path name r is q or a leading run of whole components of q
LexAncestor(r, q) ==
    \/ r = q
    \/ r = <<"/">> /\ Absolute(q)
    \/ Len(r) < Len(q) /\ SubSeq(q, 1, Len(r)) = r /\ q[Len(r) + 1] = "/"

\* ------------------------------------------------------------------ claims

\* C1: the ancestor walk terminates for every input naming an existing entry:
\* every activation receives a strictly shorter pathname than the one before,
\* no pathname is visited twice, and the recursion never runs away.
C1_WalkShortens ==
    /\ pc # "overflow"
    /\ \A i \in 1..Len(visited) : \A j \in 1..Len(visited) :
           i < j => Len(visited[j]) < Len(visited[i]) /\ visited[i] # visited[j]

\* C2: a walk ended by a failed stat of a parent directory returns a lookup
\* error, not the "not a Lustre filesystem" outcome.
C2_StatFailureDistinct ==
    (pc = "done" /\ why = "stat") => result.err = "lstat"

\* C3: a returned root names the entry of the input path or one of its
\* ancestor directories, and (in cleaned form) is a leading run of the
\* components of the cleaned input.
C3_RootIsAncestor ==
    Returned =>
        /\ Lstat(result.root).ok
        /\ AncestorOrSelf(NodeOf(result.root), NodeOf(input))
        /\ LexAncestor(Clean(result.root), Clean(input))

C3_Witness ==
    /\ Returned
    /\ NodeOf(result.root) # NodeOf(input)
    /\ Len(visited) >= 2

\* C4: for a path strictly inside a mounted target file system whose parent
\* is inside the same file system, MountRoot returns the root that MountRoot
\* of the parent returns.
C4_SameRootAsParent ==
    (op = "MountRoot" /\ NoFault /\ StrictlyInside(input)) =>
        /\ Returned
        /\ MountRoot(Dir(input)) = result

\* C5: for a path on a mounted target file system MountRelPath returns a root
\* and a suffix whose join is the cleaned path; the suffix is empty when the
\* path is the root itself.
C5_JoinRestoresPath ==
    (op = "MountRelPath" /\ NoFault /\ OnTarget(NodeOf(input))) =>
        /\ Returned
        /\ RootDirJoin(result.root, result.rel) = Clean(input)
        /\ (result.root = Clean(input) => result.rel = <<>>)

C7_RootAtOSRoot ==
    (op = "MountRoot" /\ pc \in {"done", "overflow"}
        /\ RootNode \in special /\ MountPoint(NodeOf(input)) = RootNode
        /\ why \notin {"entry", "stat"} /\ seen \notin {"unstatable", "nofid"}) =>
        /\ pc = "done"
        /\ result = [root |-> <<"/">>, rel |-> <<>>, err |-> "nil"]

\* C12: when the starting path does not exist, so that its own stat fails,
\* MountRoot and MountRelPath return the stat's error, not the "not a Lustre
\* filesystem" outcome, and make no ancestor walk and no sentinel check.
C12_MissingEntryIsIOError ==
    (pc # "idle" /\ ~Lstat(input).ok) =>
        /\ pc = "done"
        /\ result.err = "lstat"
        /\ visited = <<>>
        /\ tested = <<>>

\* C13: every failure while validating the sentinel at the boundary (missing
\* or not stat-able, not a directory, identifier lookup failing, identifier
\* not the special one) is a negative boundary test: the call returns the
\* "not a Lustre filesystem" outcome, never an I/O error, and a root is
\* returned only when all the checks pass.
C13_SentinelFailureIsNegative ==
    (pc = "done" /\ why \in {"sentinel", "nosentinel"}) =>
        /\ Len(tested) = 1
        /\ (seen = "special") <=> Returned
        /\ (seen # "special") => (NotFound /\ result.root = <<>>)
        /\ result.err # "lstat"

C13_Witness ==
    /\ NotFound /\ why = "nosentinel"
    /\ seen = "nofid"
    /\ Len(visited) >= 2
    /\ Lstat(pathname).ok /\ Lstat(pathname).node \in special

\* the directory a path name names, if any, has its real parent directory on
\* another device than d, or is "/" itself
RealBoundary(p, d) ==
    LET fi == Lstat(p) IN
    fi.ok /\ (fi.node = RootNode \/ dev[ParentNode(fi.node)] # d)

\* C16: a call tests the sentinel at one pathname only, the first one going
\* upward from the input whose parent is on another device than the starting
\* entry, or "/"; a sentinel absent there gives NotFound whatever a higher
\* ancestor carries, and a pathname whose parent shares the starting device
\* is never tested.
C16_SingleBoundaryTest ==
    /\ Len(tested) <= 1
    /\ (pc = "done" /\ why \in {"sentinel", "nosentinel"}) =>
           /\ tested = <<visited[Len(visited)]>>
           /\ (seen # "special") => NotFound
    /\ \A i \in 1..Len(tested) : RealBoundary(tested[i], startDev)
    /\ \A i \in 1..(Len(visited) - 1) : ~RealBoundary(visited[i], startDev)

\* every failure of the call was the file system's own: no stat or identifier
\* lookup failed on an entry that is there
NaturalRun ==
    /\ (why = "entry") => ~Lstat(IF op = "MountRelPath" THEN Clean(input) ELSE input).ok
    /\ (why = "stat") => ~Lstat(Dir(pathname)).ok
    /\ seen \notin {"unstatable", "nofid"}

\* the outcome of the call in progress, and of the other variant on its input
Outcome ==
    IF pc = "overflow" THEN [root |-> <<>>, err |-> "overflow"]
    ELSE [root |-> result.root, err |-> result.err]

OtherVariant ==
    LET r == IF op = "MountRelPath" THEN MountRoot(input) ELSE MountRelPath(input)
    IN  [root |-> r.root, err |-> r.err]

\* C20: on an already-cleaned path MountRoot and MountRelPath agree: both
\* fail, or both succeed with the same root (and one returns exactly when
\* the other does).
C20_VariantsAgree ==
    (pc \in {"done", "overflow"} /\ Clean(input) = input /\ NaturalRun) =>
        /\ (Outcome.err = "nil") <=> (OtherVariant.err = "nil")
        /\ (Outcome.err = "overflow") <=> (OtherVariant.err = "overflow")
        /\ Outcome.root = OtherVariant.root

C20_Witness ==
    /\ op = "MountRelPath" /\ Returned /\ Clean(input) = input /\ NaturalRun
    /\ Len(visited) >= 2 /\ result.rel # <<>>
    /\ MountRoot(input).err = "nil"
    /\ MountRoot(input).root = result.root

\* --------------------------------------------- claims on the handle cache
\* no GetMdt call is in progress
Quiet == ~fatal /\ \A t \in Threads : ~Running(t)

\* the mountDir objects constructed for root r
HandlesOf(r) == {h \in 1..nmount : mount[h].path = r}

C9_RacingFirstAccess ==
    \A r \in Roots :
        (Quiet /\ Cardinality(HandlesOf(r)) >= 2) =>
            /\ \A h \in 1..nmount : mount[h].opened => mount[h].f # NilFile
            /\ \A h1 \in 1..nmount : \A h2 \in 1..nmount :
                   (h1 # h2 /\ mount[h1].opened /\ mount[h2].opened)
                       => mount[h1].f # mount[h2].f
            /\ openMount[r] \in HandlesOf(r)

C9_Witness ==
    /\ Quiet
    /\ \E r \in Roots : \E h1 \in HandlesOf(r) : \E h2 \in HandlesOf(r) :
           /\ h1 # h2
           /\ mount[h1].opened /\ mount[h2].opened
           /\ opens[h1].ok = 1 /\ opens[h2].ok = 1
           /\ mount[h1].f # mount[h2].f

\* C10 as stated: sequential GetMdt calls naming one root make exactly one
\* os.Open call between them.
C10_ExactlyOneOpenCall ==
    \A r \in Roots :
        (Quiet /\ ~overlapped /\ hist[r].calls >= 1 /\ openMount[r] # NoHandle)
            => opens[openMount[r]].calls = 1

\* C10 as amended: sequential GetMdt calls naming one root share one handle,
\* whose directory is opened successfully once at most; every call that
\* found it unopened made one os.Open call, and no call after the successful
\* one made any.
C10_OneSuccessfulOpen ==
    \A r \in Roots :
        (Quiet /\ ~overlapped /\ hist[r].calls >= 1) =>
            /\ Cardinality(HandlesOf(r)) = 1
            /\ openMount[r] \in HandlesOf(r)
            /\ LET o == opens[openMount[r]] IN
               /\ o.ok <= 1
               /\ o.calls = hist[r].openerr + o.ok
               /\ hist[r].openerr < hist[r].calls => o.ok = 1

C10_Witness ==
    /\ Quiet /\ ~overlapped
    /\ \E r \in Roots :
           /\ hist[r].calls = 2 /\ hist[r].openerr = 0
           /\ opens[openMount[r]].calls = 1
           /\ opens[openMount[r]].ok = 1

\* the registry as sequential callers leave it: every root that was looked up
\* has one handle, the only one ever constructed for it, and every caller
\* past the lookup works on the registered handle
RegistryOK ==
    /\ \A r \in Roots :
           /\ Cardinality(HandlesOf(r)) <= 1
           /\ (openMount[r] # NoHandle) => HandlesOf(r) = {openMount[r]}
           /\ (Quiet /\ hist[r].calls >= 1) => openMount[r] # NoHandle
    /\ \A t \in Threads :
           th[t].mnt # NoHandle => th[t].mnt = openMount[th[t].root]

\* a step of sequential callers on the registry: an entry is never removed
\* or replaced, and a new entry is a new, unopened handle for that root
RegistryStep ==
    \A r \in Roots :
        /\ (openMount[r] # NoHandle) => openMount'[r] = openMount[r]
        /\ (openMount[r] = NoHandle /\ openMount'[r] # NoHandle) =>
               /\ openMount'[r] = nmount + 1 /\ nmount' = nmount + 1
               /\ mount'[nmount + 1] =
                      [path |-> r, opened |-> FALSE, f |-> NilFile, lock |-> 0]

\* C11: after any sequence of sequential GetMdt calls the registry holds one
\* handle at most per root: a lookup of an unseen root inserts a new unopened
\* handle, a lookup of a known root returns the handle that is there without
\* replacing it, and no entry is ever removed.
C11_OneHandlePerRoot ==
    [][(~overlapped') => (RegistryOK' /\ RegistryStep)]_vars

C11_Witness ==
    /\ ~overlapped /\ calls = 2
    /\ \E t \in Threads :
           /\ th[t].pc = "opened?"
           /\ hist[th[t].root].calls = 2
           /\ HandlesOf(th[t].root) = {th[t].mnt}
           /\ mount[th[t].mnt].opened

\* C14: GetMdt calls with the same root and the same file identifier return
\* the same node index while the mount does not change, whether the call
\* opened the handle or reused it, and whichever handle and file it used;
\* calls made one after the other all query the one file open on the root.
C14_SameIndex ==
    /\ \A q1 \in queried : \A q2 \in queried :
           (q1.root = q2.root /\ q1.fid = q2.fid /\ ~q1.res.err /\ ~q2.res.err) =>
               /\ q1.res.idx = q2.res.idx
               /\ q1.res.idx = GetMdtIndexByFid(q1.root, q1.fid)
    /\ (~overlapped) =>
           \A q \in queried :
               q.f # NilFile /\ q.f = mount[openMount[q.root]].f /\ fileDir[q.f] = q.root

C14_Witness ==
    \E t \in Threads : \E u \in Threads :
        /\ th[t].pc = "returned" /\ th[t].ret = "index" /\ th[t].nopen = 1
        /\ th[u].pc = "returned" /\ th[u].ret = "index" /\ th[u].nopen = 0
        /\ th[t].root = th[u].root
        /\ th[t].idx = th[u].idx

\* C15: one GetMdt call makes one os.Open call at most and one index query at
\* most; when the open fails it returns that error and makes no query, and
\* otherwise it returns what the query returned, index or error.
C15_SingleAttempt ==
    \A t \in Threads :
        /\ th[t].nopen <= 1
        /\ th[t].nquery <= 1
        /\ th[t].operr =>
               th[t].pc = "returned" /\ th[t].ret = "openerr" /\ th[t].nquery = 0
        /\ (th[t].ret = "openerr") => th[t].operr
        /\ (th[t].pc = "returned" /\ ~th[t].operr) =>
               /\ th[t].nquery = 1
               /\ \E q \in queried :
                      /\ q.mnt = th[t].mnt /\ q.root = th[t].root /\ q.f = th[t].f
                      /\ th[t].ret = (IF q.res.err THEN "queryerr" ELSE "index")
                      /\ th[t].idx = q.res.idx

C15_Witness ==
    \E t \in Threads : \E u \in Threads :
        /\ th[t].pc = "returned" /\ th[t].operr /\ th[t].nopen = 1 /\ th[t].nquery = 0
        /\ th[u].pc = "returned" /\ th[u].ret = "queryerr" /\ th[u].nopen = 1
        /\ th[u].f # NilFile

\* C18: in every interleaving of GetMdt callers the index query is made on a
\* handle whose file is set: a caller that found opened true without the
\* lock finds the file assigned, and opened true implies a file that is not
\* nil in every reachable state.
C18_OpenedImpliesFile ==
    /\ \A h \in 1..nmount : mount[h].opened => mount[h].f # NilFile
    /\ \A q \in queried : q.f # NilFile

\* no goroutine that is not inside mountDir.open holds a handle's lock
LockHeldInsideOpen ==
    \A h \in 1..nmount :
        mount[h].lock # 0 =>
            /\ th[mount[h].lock].pc \in {"open", "store", "unlock"}
            /\ th[mount[h].lock].mnt = h

\* what a failing os.Open leaves behind
FailedOpenStep ==
    \A t \in Threads :
        (th[t].pc = "open" /\ th'[t].operr) =>
            LET h == th[t].mnt IN
            /\ mount'[h] = [path |-> th[t].root, opened |-> FALSE, f |-> NilFile, lock |-> 0]
            /\ openMount' = openMount
            /\ th'[t].pc = "returned" /\ th'[t].ret = "openerr"

\* a call that finds the handle unopened attempts the open
RetriedAfterFailure ==
    \A r \in Roots :
        (Quiet /\ ~overlapped /\ hist[r].calls >= 1) =>
            /\ openMount[r] # NoHandle
            /\ opens[openMount[r]].calls >= hist[r].openerr
            /\ (hist[r].calls > hist[r].openerr) =>
                   /\ opens[openMount[r]].calls = hist[r].openerr + 1
                   /\ mount[openMount[r]].opened

\* C19: a failed open leaves the handle registered and unopened (opened
\* false, no file) with its lock released, so that no later caller waits on
\* a lock nobody will release; a later GetMdt on the root attempts the open
\* again and can succeed.
C19_FailedOpenLeavesUnopened ==
    [][FailedOpenStep /\ LockHeldInsideOpen' /\ RetriedAfterFailure']_vars

C19_Witness ==
    /\ Quiet
    /\ \E r \in Roots :
           /\ hist[r].calls = 2 /\ hist[r].openerr = 1
           /\ opens[openMount[r]].calls = 2 /\ opens[openMount[r]].ok = 1
           /\ mount[openMount[r]].opened /\ mount[openMount[r]].lock = 0
    /\ \E t \in Threads : th[t].pc = "returned" /\ th[t].ret = "index"

\* C17: MountRoot, MountRelPath and GetID perform no shared mutation: every
\* step of such a call, whatever its outcome and whatever GetMdt calls it is
\* interleaved with, leaves the registry and every handle's opened flag,
\* file and lock as they were.
C17_WalkerLeavesCacheAlone ==
    [][(walkvars' # walkvars) =>
           (openMount' = openMount /\ mount' = mount /\ nmount' = nmount
            /\ nfile' = nfile /\ fileDir' = fileDir)]_vars

C17_Witness ==
    /\ op = "GetID" /\ Returned /\ Len(visited) >= 2
    /\ \E t \in OneCaller :
           /\ th[t].pc = "query"
           /\ calls = 2
           /\ mount[th[t].mnt].opened

====
